---- MODULE Spec2Model ----
(***************************************************************************)
(* Model of stl_tool.py: the four mesh generators create_cylinder_stl,     *)
(* create_sphere_stl, create_cone_stl and create_cone_with_top_stl.        *)
(*                                                                         *)
(* Numbers.  Python floats are modelled in fixed point: a length or a      *)
(* coordinate is an integer number of thousandths (1.0 is 1000), an angle  *)
(* and a value of math.cos / math.sin is an integer number of              *)
(* ten-thousandths (1.0 is 10000).  Vertex indices and segment counts are  *)
(* plain integers, and faces hold the 0-based indices the code stores.     *)
(***************************************************************************)
EXTENDS Integers, Sequences, FiniteSets

VARIABLES call, ret, trace, printed, stl, memo

vars == <<call, ret, trace, printed, stl, memo>>

(***************************************************************************)
(* Bounds of the model.                                                    *)
(***************************************************************************)
\* largest segment count passed to a generator
MaxSeg == 5
\* largest segment count passed in the two-call specification SpecPair
MaxPairSeg == 3

\* segment counts passed by callers: below, at and above the minimum of 3
Segs == -1 .. MaxSeg
PairSegs == 2 .. MaxPairSeg
\* positive radii and heights, in thousandths (0.5, 1.0 and 1.0, 2.0)
Radii == {500, 1000}
Heights == {1000, 2000}

(***************************************************************************)
(* Arithmetic helpers.                                                     *)
(***************************************************************************)
\* a / b for b > 0, rounded to the nearest integer (half away from zero)
RoundDiv(a, b) == IF a >= 0 THEN (2 * a + b) \div (2 * b)
                            ELSE -((2 * (-a) + b) \div (2 * b))

\* Python's built-in max(a, b)
max(a, b) == IF a >= b THEN a ELSE b

\* len(range(n)): the number of iterations of "for i in range(n)"
range_len(n) == IF n > 0 THEN n ELSE 0

\* math.pi, in ten-thousandths
pi == 31416

RECURSIVE CosSeries(_, _, _, _)
\* the Taylor series of the cosine around 0, for 0 <= x <= pi/2: term is the
\* k-th term, acc the sum of the terms before it
CosSeries(x, k, term, acc) ==
    IF term = 0 \/ k > 12 THEN acc
    ELSE CosSeries(x, k + 2,
                   -RoundDiv(RoundDiv(RoundDiv(term * x, 10000) * x, 10000),
                             (k + 1) * (k + 2)),
                   acc + term)

\* math.cos(x) for an angle x in [0, 2 pi], in ten-thousandths
cos(x) ==
    LET a == IF x > pi THEN 2 * pi - x ELSE x
    IN  IF 2 * a > pi THEN -CosSeries(pi - a, 0, 10000, 0)
                      ELSE CosSeries(a, 0, 10000, 0)

\* math.sin(x) for an angle x in [0, 2 pi], in ten-thousandths
sin(x) ==
    LET a == IF x > pi THEN 2 * pi - x ELSE x
        s == IF 2 * a > pi THEN CosSeries(a - pi \div 2, 0, 10000, 0)
                           ELSE CosSeries(pi \div 2 - a, 0, 10000, 0)
    IN  IF x > pi THEN -s ELSE s

(***************************************************************************)
(* Python list and array operations.                                       *)
(***************************************************************************)
\* a vertex list that survives the call: the next call appends to the
\* vertices the previous call returned
leaked_vertices == IF ret = <<>> THEN <<>> ELSE ret[1]

\* "vertices = []": the fresh vertex list every call starts from
new_vertices == <<>>

\* "faces = []": the fresh face list every call starts from
new_faces == <<>>

\* whether a[idx] exists for a list or array of length n: Python indices are
\* 0-based and a negative index counts from the end
index_ok(n, idx) == -n <= idx /\ idx < n

\* a[idx] for a list or array a (a TLA+ sequence, 1-based)
getitem(a, idx) == IF idx >= 0 THEN a[idx + 1] ELSE a[Len(a) + idx + 1]

\* the index after i without the wrap to 0
next_index_unwrapped(i, n) == i + 1

\* (i + 1) % n, the index after i on a ring of n vertices
next_index(i, n) == (i + 1) % n

\* radius * math.cos(angle) and radius * math.sin(angle), in thousandths
times_cos(radius, angle) == RoundDiv(radius * cos(angle), 10000)
times_sin(radius, angle) == RoundDiv(radius * sin(angle), 10000)

\* the vertices one "for i in range(num_segments)" loop appends: a ring of
\* num_segments points of the given radius at height z, at the angles
\* 2 * math.pi * i / num_segments
ring_vertices(radius, z, num_segments) ==
    [k \in 1 .. range_len(num_segments) |->
        LET angle == (2 * pi * (k - 1)) \div num_segments
        IN  <<times_cos(radius, angle), times_sin(radius, angle), z>>]

(***************************************************************************)
(* create_cylinder_stl                                                     *)
(***************************************************************************)
\* no clamp: the segment count is used as passed
unclamped_segments(num_segments) == num_segments

\* "num_segments = max(3, num_segments)"
clamp_segments(num_segments) == max(3, num_segments)

cylinder_vertices(radius, height, num_segments) ==
    new_vertices
    \o << <<0, 0, -(height \div 2)>>, <<0, 0, height \div 2>> >>
    \o ring_vertices(radius, -(height \div 2), num_segments)
    \o ring_vertices(radius, height \div 2, num_segments)

\* the bottom-cap face in ring order: centre 0 -> current point -> next point
bottom_face_ring_order(i, num_segments) ==
    <<0, 2 + i, 2 + next_index(i, num_segments)>>

\* the bottom-cap face of segment i: centre 0 -> next point -> current point
bottom_face(i, num_segments) ==
    <<0, 2 + next_index(i, num_segments), 2 + i>>

\* the top-cap face of segment i: centre 1 -> current point -> next point
top_face(i, num_segments) ==
    <<1, 2 + num_segments + i, 2 + num_segments + next_index(i, num_segments)>>

\* the first side face closed with the top point above the current one
side_face_1_top_current(i, num_segments) ==
    <<2 + i, 2 + next_index(i, num_segments), 2 + num_segments + i>>

\* the second side face with its last two vertices exchanged
side_face_2_reversed(i, num_segments) ==
    <<2 + i, 2 + num_segments + i,
      2 + num_segments + next_index(i, num_segments)>>

\* the two side faces of segment i
side_face_1(i, num_segments) ==
    <<2 + i, 2 + next_index(i, num_segments),
      2 + num_segments + next_index(i, num_segments)>>

side_face_2(i, num_segments) ==
    <<2 + i, 2 + num_segments + next_index(i, num_segments),
      2 + num_segments + i>>

bottom_faces(num_segments) ==
    [k \in 1 .. range_len(num_segments) |-> bottom_face(k - 1, num_segments)]

top_faces(num_segments) ==
    [k \in 1 .. range_len(num_segments) |-> top_face(k - 1, num_segments)]

\* a side loop that appends only the first face of each segment
side_faces_first_only(num_segments) ==
    [k \in 1 .. range_len(num_segments) |-> side_face_1(k - 1, num_segments)]

\* the side loop appends side_face_1 then side_face_2 for each segment
side_faces(num_segments) ==
    [k \in 1 .. 2 * range_len(num_segments) |->
        IF k % 2 = 1 THEN side_face_1((k - 1) \div 2, num_segments)
                     ELSE side_face_2((k - 1) \div 2, num_segments)]

cylinder_faces(num_segments) ==
    new_faces \o bottom_faces(num_segments) \o top_faces(num_segments)
              \o side_faces(num_segments)

(***************************************************************************)
(* Face normals.                                                           *)
(***************************************************************************)
sub(a, b) == <<a[1] - b[1], a[2] - b[2], a[3] - b[3]>>

\* np.cross(u, v), for u and v in thousandths; the result is scaled back to
\* thousandths
cross(u, v) == <<RoundDiv(u[2] * v[3] - u[3] * v[2], 1000),
                 RoundDiv(u[3] * v[1] - u[1] * v[3], 1000),
                 RoundDiv(u[1] * v[2] - u[2] * v[1], 1000)>>

dot(u, v) == u[1] * v[1] + u[2] * v[2] + u[3] * v[3]

RECURSIVE sqrt_search(_, _, _)
\* the largest r in lo .. hi with r * r <= n
sqrt_search(n, lo, hi) ==
    IF lo >= hi THEN lo
    ELSE LET mid == (lo + hi + 1) \div 2
         IN  IF mid * mid <= n THEN sqrt_search(n, mid, hi)
                               ELSE sqrt_search(n, lo, mid - 1)

\* np.linalg.norm(v), rounded down
norm(v) == sqrt_search(dot(v, v), 0, 40000)

\* the normal (v1 - v0) x (v2 - v0) of a face, from its vertex order
face_normal(vertices, face) ==
    LET v0 == getitem(vertices, face[1])
        v1 == getitem(vertices, face[2])
        v2 == getitem(vertices, face[3])
    IN  cross(sub(v1, v0), sub(v2, v0))

\* normal / np.linalg.norm(normal) as the "{:.2f}" format prints it: in
\* hundredths; a zero vector divides to nan, printed here as <<>>
unit_normal(vertices, face) ==
    LET n == face_normal(vertices, face)
        l == norm(n)
    IN  IF l = 0 THEN <<>>
        ELSE <<RoundDiv(100 * n[1], l), RoundDiv(100 * n[2], l),
               RoundDiv(100 * n[3], l)>>

\* whether the three indices of a face can be looked up in the vertex array
face_ok(vertices, face) ==
    \A k \in 1 .. 3 : index_ok(Len(vertices), face[k])

\* whether every face can be looked up
faces_ok(vertices, faces) ==
    \A i \in 1 .. Len(faces) : face_ok(vertices, faces[i])

\* the lines the normal verification loop prints for faces[:4]: bottom-cap
\* faces are labelled "bottom", top-cap faces "top", others print nothing
normal_lines(vertices, faces, num_segments) ==
    LET shown == IF Len(faces) < 4 THEN Len(faces) ELSE 4
        line(i) == IF i < num_segments
                   THEN << <<"bottom", i, unit_normal(vertices, faces[i + 1])>> >>
                   ELSE IF i < 2 * num_segments
                   THEN << <<"top", i - num_segments,
                             unit_normal(vertices, faces[i + 1])>> >>
                   ELSE <<>>
        lines[i \in 0 .. shown] ==
            IF i = 0 THEN <<>> ELSE lines[i - 1] \o line(i - 1)
    IN  lines[shown]

(***************************************************************************)
(* The mesh writer.                                                        *)
(***************************************************************************)
\* the Mesh object the generator fills before saving:
\* vectors[i][j] = vertices[f[j], :]
mesh_vectors(vertices, faces) ==
    [i \in 1 .. Len(faces) |->
        [j \in 1 .. 3 |-> getitem(vertices, faces[i][j])]]

\* a writer that is invoked again after a failed save
save_calls_retry(vectors, write_ok) ==
    IF write_ok THEN <<vectors>> ELSE <<vectors, vectors>>

\* the writer invocations of a call whose mesh was built: exactly one save
save_calls(vectors, write_ok) == <<vectors>>

\* The common tail of the four generators, from the filling of the Mesh
\* object to the return.  steps are the steps done before it.  A face index
\* outside the vertex array raises IndexError before the writer is reached;
\* a failed save raises out of the generator; otherwise the summary is
\* printed and (vertices, faces) is returned.  The result names the writer
\* invocations (stl), the steps taken (trace) and the value returned (ret,
\* <<>> when the call raised).
save_and_return(steps, vertices, faces, write_ok) ==
    IF ~faces_ok(vertices, faces)
    THEN [stl |-> <<>>, trace |-> steps \o <<"IndexError">>, ret |-> <<>>]
    ELSE IF write_ok
    THEN [stl |-> save_calls(mesh_vectors(vertices, faces), write_ok),
          trace |-> steps \o <<"mesh", "save", "print_saved", "return">>,
          ret |-> <<vertices, faces>>]
    ELSE [stl |-> save_calls(mesh_vectors(vertices, faces), write_ok),
          trace |-> steps \o <<"mesh", "save", "IOError">>,
          ret |-> <<>>]

\* what one call of a generator does: the call made, the lines printed by
\* the normal verification, and the result of save_and_return
outcome(made, lines, tail) ==
    [call |-> made, printed |-> lines, stl |-> tail.stl, trace |-> tail.trace,
     ret |-> tail.ret]

\* create_cylinder_stl(filename, radius, height, num_segments), with
\* write_ok the outcome of the writer's save
create_cylinder_stl(radius, height, num_segments, write_ok) ==
    LET n == clamp_segments(num_segments)
        vertices == cylinder_vertices(radius, height, n)
        faces == cylinder_faces(n)
        shown == IF Len(faces) < 4 THEN Len(faces) ELSE 4
        made == <<"cylinder", radius, height, num_segments>>
    IN  IF \A i \in 1 .. shown : face_ok(vertices, faces[i])
        THEN outcome(made, normal_lines(vertices, faces, n),
                     save_and_return(<<"vertices", "faces", "normals">>,
                                     vertices, faces, write_ok))
        ELSE outcome(made, <<>>,
                     [stl |-> <<>>,
                      trace |-> <<"vertices", "faces", "IndexError">>,
                      ret |-> <<>>])

(***************************************************************************)
(* create_sphere_stl                                                       *)
(***************************************************************************)
\* latitude rings for i in range(num_segments_vertical): one ring too many,
\* the first of them at the polar angle 0
latitude_vertices_from_0(radius, num_segments_vertical, num_segments_horizontal) ==
    [k \in 1 .. range_len(num_segments_vertical)
                * range_len(num_segments_horizontal) |->
        LET i == (k - 1) \div num_segments_horizontal
            j == (k - 1) % num_segments_horizontal
            theta == (pi * i) \div num_segments_vertical
            z == times_cos(radius, theta)
            circle_radius == times_sin(radius, theta)
            phi == (2 * pi * j) \div num_segments_horizontal
        IN  <<times_cos(circle_radius, phi), times_sin(circle_radius, phi), z>>]

\* the latitude rings: for i in range(1, num_segments_vertical), for j in
\* range(num_segments_horizontal), the point at polar angle
\* math.pi * i / num_segments_vertical and azimuth
\* 2 * math.pi * j / num_segments_horizontal
latitude_vertices(radius, num_segments_vertical, num_segments_horizontal) ==
    [k \in 1 .. range_len(num_segments_vertical - 1)
                * range_len(num_segments_horizontal) |->
        LET i == 1 + (k - 1) \div num_segments_horizontal
            j == (k - 1) % num_segments_horizontal
            theta == (pi * i) \div num_segments_vertical
            z == times_cos(radius, theta)
            circle_radius == times_sin(radius, theta)
            phi == (2 * pi * j) \div num_segments_horizontal
        IN  <<times_cos(circle_radius, phi), times_sin(circle_radius, phi), z>>]

sphere_vertices(radius, num_segments_vertical, num_segments_horizontal) ==
    new_vertices
    \o << <<0, 0, radius>> >>
    \o latitude_vertices(radius, num_segments_vertical, num_segments_horizontal)
    \o << <<0, 0, -radius>> >>

\* the face of the north cap at longitude j
north_face(j, num_segments_horizontal) ==
    <<0, 1 + next_index(j, num_segments_horizontal), 1 + j>>

\* the two faces of the quad of latitude band i at longitude j
band_face_1(i, j, num_segments_horizontal) ==
    <<1 + i * num_segments_horizontal + j,
      1 + i * num_segments_horizontal + next_index(j, num_segments_horizontal),
      1 + (i + 1) * num_segments_horizontal
        + next_index(j, num_segments_horizontal)>>

band_face_2(i, j, num_segments_horizontal) ==
    <<1 + i * num_segments_horizontal + j,
      1 + (i + 1) * num_segments_horizontal
        + next_index(j, num_segments_horizontal),
      1 + (i + 1) * num_segments_horizontal + j>>

\* the face of the south cap at longitude j
south_face(j, num_segments_horizontal, last_latitude_start, south_pole_index) ==
    <<last_latitude_start + j,
      last_latitude_start + next_index(j, num_segments_horizontal),
      south_pole_index>>

north_faces(num_segments_horizontal) ==
    [k \in 1 .. range_len(num_segments_horizontal) |->
        north_face(k - 1, num_segments_horizontal)]

\* for i in range(num_segments_vertical - 2), for j in
\* range(num_segments_horizontal): band_face_1 then band_face_2
band_faces(num_segments_vertical, num_segments_horizontal) ==
    [k \in 1 .. 2 * range_len(num_segments_vertical - 2)
                  * range_len(num_segments_horizontal) |->
        LET q == (k - 1) \div 2
            i == q \div num_segments_horizontal
            j == q % num_segments_horizontal
        IN  IF k % 2 = 1 THEN band_face_1(i, j, num_segments_horizontal)
                         ELSE band_face_2(i, j, num_segments_horizontal)]

south_faces(num_vertices, num_segments_vertical, num_segments_horizontal) ==
    LET south_pole_index == num_vertices - 1
        last_latitude_start ==
            1 + (num_segments_vertical - 2) * num_segments_horizontal
    IN  [k \in 1 .. range_len(num_segments_horizontal) |->
            south_face(k - 1, num_segments_horizontal, last_latitude_start,
                       south_pole_index)]

sphere_faces(num_vertices, num_segments_vertical, num_segments_horizontal) ==
    new_faces
    \o north_faces(num_segments_horizontal)
    \o band_faces(num_segments_vertical, num_segments_horizontal)
    \o south_faces(num_vertices, num_segments_vertical, num_segments_horizontal)

\* create_sphere_stl(filename, radius, num_segments_vertical,
\* num_segments_horizontal), with write_ok the outcome of the writer's save
create_sphere_stl(radius, num_segments_vertical, num_segments_horizontal, write_ok) ==
    LET nv == clamp_segments(num_segments_vertical)
        nh == clamp_segments(num_segments_horizontal)
        vertices == sphere_vertices(radius, nv, nh)
        faces == sphere_faces(Len(vertices), nv, nh)
    IN  outcome(<<"sphere", radius, num_segments_vertical,
                  num_segments_horizontal>>, <<>>,
                save_and_return(<<"vertices", "faces">>, vertices, faces,
                                write_ok))

(***************************************************************************)
(* create_cone_stl                                                         *)
(***************************************************************************)
cone_vertices(radius, height, num_segments) ==
    new_vertices
    \o << <<0, 0, 0>>, <<0, 0, height>> >>
    \o ring_vertices(radius, 0, num_segments)

\* the base face of segment i: centre 0 -> next point -> current point
cone_base_face(i, num_segments) ==
    <<0, 2 + next_index(i, num_segments), 2 + i>>

\* the side face of segment i: current point -> next point -> apex 1
cone_side_face(i, num_segments) ==
    <<2 + i, 2 + next_index(i, num_segments), 1>>

cone_faces(num_segments) ==
    new_faces
    \o [k \in 1 .. range_len(num_segments) |->
            cone_base_face(k - 1, num_segments)]
    \o [k \in 1 .. range_len(num_segments) |->
            cone_side_face(k - 1, num_segments)]

\* create_cone_stl(filename, radius, height, num_segments), with write_ok
\* the outcome of the writer's save
create_cone_stl(radius, height, num_segments, write_ok) ==
    LET n == clamp_segments(num_segments)
        vertices == cone_vertices(radius, height, n)
        faces == cone_faces(n)
    IN  outcome(<<"cone", radius, height, num_segments>>, <<>>,
                save_and_return(<<"vertices", "faces">>, vertices, faces,
                                write_ok))

(***************************************************************************)
(* create_cone_with_top_stl                                                *)
(***************************************************************************)
frustum_vertices(bottom_radius, top_radius, height, num_segments) ==
    new_vertices
    \o << <<0, 0, 0>>, <<0, 0, height>> >>
    \o ring_vertices(bottom_radius, 0, num_segments)
    \o ring_vertices(top_radius, height, num_segments)

\* the bottom face of segment i: centre 0 -> next point -> current point
frustum_bottom_face(i, num_segments) ==
    <<0, 2 + next_index(i, num_segments), 2 + i>>

\* the top face of segment i: centre 1 -> current point -> next point
frustum_top_face(i, num_segments) ==
    <<1, 2 + num_segments + i, 2 + num_segments + next_index(i, num_segments)>>

\* the two side faces of segment i
frustum_side_face_1(i, num_segments) ==
    <<2 + i, 2 + next_index(i, num_segments),
      2 + num_segments + next_index(i, num_segments)>>

frustum_side_face_2(i, num_segments) ==
    <<2 + i, 2 + num_segments + next_index(i, num_segments),
      2 + num_segments + i>>

frustum_faces(num_segments) ==
    new_faces
    \o [k \in 1 .. range_len(num_segments) |->
            frustum_bottom_face(k - 1, num_segments)]
    \o [k \in 1 .. range_len(num_segments) |->
            frustum_top_face(k - 1, num_segments)]
    \o [k \in 1 .. 2 * range_len(num_segments) |->
            IF k % 2 = 1 THEN frustum_side_face_1((k - 1) \div 2, num_segments)
                         ELSE frustum_side_face_2((k - 1) \div 2, num_segments)]

\* create_cone_with_top_stl(filename, bottom_radius, top_radius, height,
\* num_segments), with write_ok the outcome of the writer's save
create_cone_with_top_stl(bottom_radius, top_radius, height, num_segments, write_ok) ==
    LET n == clamp_segments(num_segments)
        vertices == frustum_vertices(bottom_radius, top_radius, height, n)
        faces == frustum_faces(n)
    IN  outcome(<<"frustum", bottom_radius, top_radius, height,
                  num_segments>>, <<>>,
                save_and_return(<<"vertices", "faces">>, vertices, faces,
                                write_ok))

(***************************************************************************)
(* Callers.  A caller invokes one generator with parameters of its choice; *)
(* the writer's save succeeds or fails.  The outcomes of the calls over    *)
(* the callers' parameter sets are tabulated, so that a call whose         *)
(* generator reads no state is evaluated once.                             *)
(***************************************************************************)
cylinder_calls ==
    [radius \in Radii, height \in Heights, num_segments \in Segs,
     write_ok \in BOOLEAN |->
        create_cylinder_stl(radius, height, num_segments, write_ok)]

sphere_calls ==
    [radius \in Radii, num_segments_vertical \in Segs,
     num_segments_horizontal \in Segs, write_ok \in BOOLEAN |->
        create_sphere_stl(radius, num_segments_vertical,
                          num_segments_horizontal, write_ok)]

cone_calls ==
    [radius \in Radii, height \in Heights, num_segments \in Segs,
     write_ok \in BOOLEAN |->
        create_cone_stl(radius, height, num_segments, write_ok)]

frustum_calls ==
    [bottom_radius \in Radii, top_radius \in Radii, height \in Heights,
     num_segments \in Segs, write_ok \in BOOLEAN |->
        create_cone_with_top_stl(bottom_radius, top_radius, height,
                                 num_segments, write_ok)]

\* the program state after a call with outcome o
Invoke(o) ==
    /\ call' = o.call
    /\ ret' = o.ret
    /\ trace' = o.trace
    /\ printed' = o.printed
    /\ stl' = o.stl

CallCylinder(segs) ==
    \E radius \in Radii, height \in Heights, num_segments \in segs,
       write_ok \in BOOLEAN :
       Invoke(cylinder_calls[radius, height, num_segments, write_ok])

CallSphere(segs) ==
    \E radius \in Radii, num_segments_vertical \in segs,
       num_segments_horizontal \in segs, write_ok \in BOOLEAN :
       Invoke(sphere_calls[radius, num_segments_vertical,
                           num_segments_horizontal, write_ok])

CallCone(segs) ==
    \E radius \in Radii, height \in Heights, num_segments \in segs,
       write_ok \in BOOLEAN :
       Invoke(cone_calls[radius, height, num_segments, write_ok])

CallFrustum(segs) ==
    \E bottom_radius \in Radii, top_radius \in Radii, height \in Heights,
       num_segments \in segs, write_ok \in BOOLEAN :
       Invoke(frustum_calls[bottom_radius, top_radius, height, num_segments,
                            write_ok])

Init == /\ call = <<>>
        /\ ret = <<>>
        /\ trace = <<>>
        /\ printed = <<>>
        /\ stl = <<>>
        /\ memo = <<>>

Next == \/ CallCylinder(Segs) /\ UNCHANGED memo
        \/ CallSphere(Segs) /\ UNCHANGED memo
        \/ CallCone(Segs) /\ UNCHANGED memo
        \/ CallFrustum(Segs) /\ UNCHANGED memo

Spec == Init /\ [][Next]_vars

(***************************************************************************)
(* Sequences of calls under observation.  memo is the observer's record of *)
(* one earlier call that returned, <<call, ret, k>>, with k the number of  *)
(* calls made after it (2 standing for two or more); it is no state of the *)
(* program.                                                                *)
(***************************************************************************)
Observe ==
    IF memo = <<>>
    THEN \/ memo' = memo
         \/ ret' # <<>> /\ memo' = <<call', ret', 0>>
    ELSE memo' = <<memo[1], memo[2], IF memo[3] < 2 THEN memo[3] + 1 ELSE 2>>

NextPair == \/ CallCylinder(PairSegs) /\ Observe
            \/ CallSphere(PairSegs) /\ Observe
            \/ CallCone(PairSegs) /\ Observe
            \/ CallFrustum(PairSegs) /\ Observe

SpecPair == Init /\ [][NextPair]_vars
(***************************************************************************)
(* Properties.                                                             *)
(***************************************************************************)
\* the most recent call returned a (vertices, faces) pair
Returned == ret # <<>>

\* the generator and the segment counts of the most recent call; a segment
\* count below 3 counts as 3
Generator == call[1]
AtLeast3(n) == IF n < 3 THEN 3 ELSE n
N == AtLeast3(call[Len(call)])
Nv == AtLeast3(call[3])
Nh == AtLeast3(call[4])

\* the undirected and the directed edges of a face, the directed ones in the
\* cyclic order of its three indices
Edges(face) == {{face[1], face[2]}, {face[2], face[3]}, {face[3], face[1]}}
DirectedEdges(face) ==
    {<<face[1], face[2]>>, <<face[2], face[3]>>, <<face[3], face[1]>>}

\* the faces (by position) that have the undirected edge e, the directed edge d
FacesWithEdge(faces, e) == {k \in DOMAIN faces : e \in Edges(faces[k])}
FacesWithDirectedEdge(faces, d) ==
    {k \in DOMAIN faces : d \in DirectedEdges(faces[k])}

\* C1: every undirected edge that occurs in a returned face occurs in
\* exactly two returned faces (the mesh is closed).
C1_Closed ==
    Returned =>
        \A i \in DOMAIN ret[2] : \A e \in Edges(ret[2][i]) :
            Cardinality(FacesWithEdge(ret[2], e)) = 2

\* a sphere with a middle band was returned
C1_Witness ==
    /\ Returned
    /\ Generator = "sphere"
    /\ call[3] >= 4
    /\ \E i \in DOMAIN ret[2] : \E e \in Edges(ret[2][i]) :
           FacesWithEdge(ret[2], e) # {i}

\* C2: two faces that share an edge traverse it in opposite directions:
\* every directed edge of a returned face occurs in exactly one face, and
\* its reverse occurs in exactly one other face.
C2_OppositeWinding ==
    Returned =>
        \A i \in DOMAIN ret[2] : \A d \in DirectedEdges(ret[2][i]) :
            /\ FacesWithDirectedEdge(ret[2], d) = {i}
            /\ Cardinality(FacesWithDirectedEdge(ret[2], <<d[2], d[1]>>)) = 1
            /\ i \notin FacesWithDirectedEdge(ret[2], <<d[2], d[1]>>)

\* a cylinder was returned whose first side face meets its second side face
\* along the diagonal, traversed in opposite directions
C2_Witness ==
    /\ Returned
    /\ Generator = "cylinder"
    /\ LET f1 == ret[2][2 * N + 1]
           f2 == ret[2][2 * N + 2]
       IN  /\ <<f1[3], f1[1]>> \in DirectedEdges(f1)
           /\ <<f1[1], f1[3]>> \in DirectedEdges(f2)

\* a point inside the solid of the most recent call: the centre of the
\* cylinder and of the sphere (the origin), the middle of the axis of the
\* cone and of the frustum
InteriorPoint ==
    IF Generator = "cone" THEN <<0, 0, call[3] \div 2>>
    ELSE IF Generator = "frustum" THEN <<0, 0, call[4] \div 2>>
    ELSE <<0, 0, 0>>

\* the normal of a face points away from the interior point: it has a
\* positive component along the direction from that point to the face
PointsOutward(vertices, face) ==
    dot(face_normal(vertices, face),
        sub(getitem(vertices, face[1]), InteriorPoint)) > 0

\* C3: for every returned face, the normal (v1 - v0) x (v2 - v0) computed
\* from the vertex order points away from the solid's interior.
C3_OutwardNormals ==
    Returned => \A i \in DOMAIN ret[2] : PointsOutward(ret[1], ret[2][i])

\* C4: every index in every returned face is a valid 0-based index into the
\* returned vertex list, and no call fails on a face index.
C4_ValidIndices ==
    /\ \A s \in DOMAIN trace : trace[s] # "IndexError"
    /\ Returned =>
           \A i \in DOMAIN ret[2] : \A k \in 1 .. 3 :
               0 <= ret[2][i][k] /\ ret[2][i][k] < Len(ret[1])

\* a sphere was returned whose last face holds the south-pole index, the
\* last index of the vertex list
C4_Witness ==
    /\ Returned
    /\ Generator = "sphere"
    /\ ret[2][Len(ret[2])][3] = Len(ret[1]) - 1

\* C5: a call with a segment count below 3 returns exactly what the call
\* with 3 in its place returns; the two counts of the sphere are clamped
\* independently.
C5_SegmentClamp ==
    Returned =>
        ret = CASE Generator = "cylinder" ->
                       create_cylinder_stl(call[2], call[3], N, TRUE).ret
                [] Generator = "sphere" ->
                       create_sphere_stl(call[2], Nv, Nh, TRUE).ret
                [] Generator = "cone" ->
                       create_cone_stl(call[2], call[3], N, TRUE).ret
                [] Generator = "frustum" ->
                       create_cone_with_top_stl(call[2], call[3], call[4], N,
                                                TRUE).ret

\* a sphere called with a vertical count below 3 and a horizontal count
\* above 3 returned
C5_Witness ==
    /\ Returned
    /\ Generator = "sphere"
    /\ call[3] < 3
    /\ call[4] > 3

\* C6: the returned vertex list has 2+2N entries for the cylinder, 2+N for
\* the cone, 2+2N for the frustum and 2+(Nv-1)*Nh for the sphere.
C6_VertexCount ==
    Returned =>
        Len(ret[1]) = CASE Generator = "cylinder" -> 2 + 2 * N
                        [] Generator = "sphere" -> 2 + (Nv - 1) * Nh
                        [] Generator = "cone" -> 2 + N
                        [] Generator = "frustum" -> 2 + 2 * N

\* the sphere of the scenario (Nv = 3, Nh = 4) returned its 10 vertices
C6_Witness ==
    /\ Returned
    /\ Generator = "sphere"
    /\ call[3] = 3
    /\ call[4] = 4
    /\ Len(ret[1]) = 10

\* C7: the returned face list has 4N entries for the cylinder, 2N for the
\* cone, 4N for the frustum and Nh + Nh + 2*Nh*(Nv-2) for the sphere.
C7_FaceCount ==
    Returned =>
        Len(ret[2]) = CASE Generator = "cylinder" -> 4 * N
                        [] Generator = "sphere" -> Nh + Nh + 2 * Nh * (Nv - 2)
                        [] Generator = "cone" -> 2 * N
                        [] Generator = "frustum" -> 4 * N

\* the cylinder of the scenario (4 segments) returned its 16 faces
C7_Witness ==
    /\ Returned
    /\ Generator = "cylinder"
    /\ call[4] = 4
    /\ Len(ret[2]) = 16

\* C8: every bottom-cap face of the cylinder (faces 0..N-1, with centre 0)
\* has a normal with negative Z-component and every top-cap face (faces
\* N..2N-1, with centre 1) a normal with positive Z-component; radius 1,
\* height 2 and 4 segments give the unit normals (0,0,-1) and (0,0,+1).
C8_CylinderCapNormals ==
    (Returned /\ Generator = "cylinder") =>
        /\ \A i \in 1 .. N :
               /\ ret[2][i][1] = 0
               /\ face_normal(ret[1], ret[2][i])[3] < 0
               /\ ret[2][N + i][1] = 1
               /\ face_normal(ret[1], ret[2][N + i])[3] > 0
        /\ call = <<"cylinder", 1000, 2000, 4>> =>
               \A i \in 1 .. 4 :
                   /\ unit_normal(ret[1], ret[2][i]) = <<0, 0, -100>>
                   /\ unit_normal(ret[1], ret[2][4 + i]) = <<0, 0, 100>>

\* the cylinder of the scenario returned and the verification printed the
\* normals of its four bottom-cap faces
C8_Witness ==
    /\ Returned
    /\ call = <<"cylinder", 1000, 2000, 4>>
    /\ Len(printed) = 4
    /\ \A i \in 1 .. 4 : printed[i][1] = "bottom"

\* C9: two calls of the same generator with identical parameters return
\* identical vertex and face sequences, whatever calls were made between
\* them.
C9_Idempotent ==
    (memo # <<>> /\ Returned /\ memo[1] = call) => memo[2] = ret

\* a call returned, other calls followed, and the call was repeated and
\* returned
C9_Witness ==
    /\ memo # <<>>
    /\ memo[3] = 2
    /\ Returned
    /\ memo[1] = call

\* the position of the first occurrence of step in the trace, 0 if absent
Position(step) ==
    IF \E s \in DOMAIN trace : trace[s] = step
    THEN CHOOSE s \in DOMAIN trace :
             trace[s] = step /\ \A t \in 1 .. s - 1 : trace[t] # step
    ELSE 0

\* the number of occurrences of step in the trace
Occurrences(step) == Cardinality({s \in DOMAIN trace : trace[s] = step})

\* C10: each call invokes the writer exactly once, after the vertex and face
\* lists are built; if the save fails, the failure leaves the generator: no
\* pair is returned, no 'saved' message is printed and the writer is not
\* invoked again.
C10_WriteFailurePropagates ==
    call # <<>> =>
        /\ Len(stl) = 1
        /\ Occurrences("save") = 1
        /\ 0 < Position("vertices")
        /\ Position("vertices") < Position("faces")
        /\ Position("faces") < Position("save")
        /\ Occurrences("IOError") = 1 =>
               /\ trace[Len(trace)] = "IOError"
               /\ Position("save") = Len(trace) - 1
               /\ ret = <<>>
               /\ Occurrences("print_saved") = 0
               /\ Occurrences("return") = 0

\* a call built its mesh, invoked the writer and the save failed
C10_Witness ==
    /\ call # <<>>
    /\ Len(stl) = 1
    /\ Len(stl[1]) > 0
    /\ trace[Len(trace)] = "IOError"
====
